---- MODULE Spec2Model ----
(***************************************************************************)
(* A model of fedimg's GCE service (fedimg/services/gce.py), its base      *)
(* class used as a context manager (fedimg/common.py) and the SSH probe    *)
(* (fedimg/util.py: ssh_connection_works).                                 *)
(*                                                                         *)
(* One caller drives one GCEService: it enters a with-block, calls test    *)
(* and cleanup inside it, and leaves the block normally or with an error.  *)
(* Every provider call (libcloud, paramiko) is a step whose outcome is     *)
(* chosen nondeterministically among the outcomes the call can have.       *)
(***************************************************************************)
EXTENDS Integers, Sequences, FiniteSets, TLC

\* ---- bounds of the model -------------------------------------------------
\* test() calls one caller makes inside the with-block
MaxTests == 2
\* cleanup() calls the caller makes itself inside the with-block
MaxCleanups == 2
\* largest `attempts` argument of a direct ssh_connection_works call
MaxAttempts == 3

\* most tokens (a character, or the text .tar.gz) in an image object name
MaxNameLen == 3
\* most sizes list_sizes returns, and the highest price of a size
MaxSizes == 3
MaxPrice == 2
\* most entities in one share call
MaxEntities == 2

\* ---- program constants ---------------------------------------------------
\* attempts=60 in GCEService.test
SSH_ATTEMPTS == 60

VARIABLES
    pc,            \* position of the caller / the running method
    nodes,         \* self.nodes
    gce_images,    \* self.gce_images
    gce_image,     \* local of test: the image ex_create_image returned (0: none)
    node,          \* local of test: the node create_node returned (0: none)
    ci,            \* index of the running for-loop of cleanup
    cleanup_by,    \* who called the running cleanup: "caller" or "__exit__"
    c_start,       \* Len(requests) when the running cleanup started
    raised,        \* the exception leaving the method that just ended
    block_error,   \* the exception with which the with-block ended
    received,      \* what the code around the with-statement receives
    ops,           \* service methods called so far, in order
    cloud_images,  \* provider side: images ex_create_image has returned
    cloud_nodes,   \* provider side: nodes create_node has returned
    requests,      \* provider side: destroy_node / delete requests, in order
    reap_outcomes, \* outcomes the destroy_node / delete calls have had
    ssh_caller,    \* who called ssh_connection_works: "caller" or "test"
    ssh_attempts,  \* argument attempts
    attempt,       \* local attempt
    ssh_pending,   \* what the loop body does once finally has run
    ssh_log,       \* connect / sleep / close events, in order
    ssh_result,    \* "none", "True", "False" or "raised"
    image_name,    \* argument of test: image.name, a string of characters
    gce_image_name,\* local of test: the name passed to ex_create_image
    sizes,         \* local of test: what list_sizes returned, in its order
    size,          \* local of test: the size chosen for create_node
    t_log,         \* provider steps the running test has started, in order
    storage_log,   \* storage / HTTP calls of the running upload or share
    container,     \* local of upload: "none", "existing" or "created"
    entities,      \* argument of share
    si             \* index of the for-loop of share

test_io == <<image_name, gce_image_name, sizes, size, t_log>>
sto_vars == <<storage_log, container, entities, si>>
svc_vars == <<nodes, gce_images, gce_image, node, ci, cleanup_by, c_start,
              raised, block_error, received, ops, cloud_images, cloud_nodes,
              requests, reap_outcomes, test_io, sto_vars>>
ssh_vars == <<ssh_caller, ssh_attempts, attempt, ssh_pending, ssh_log,
              ssh_result>>
vars == <<pc, svc_vars, ssh_vars>>

\* ---- exceptions ----------------------------------------------------------
Err(type, origin, id) == [type |-> type, origin |-> origin, id |-> id]
NoError == Err("none", "none", 0)

\* ---- helpers -------------------------------------------------------------
Range(s) == {s[i] : i \in 1..Len(s)}
CountIdx(s, P(_)) == Cardinality({i \in 1..Len(s) : P(s[i])})
IsTestOp(o) == o.m = "test"
IsCallerCleanup(o) == o.m = "cleanup" /\ o.by = "caller"
IsExitCleanup(o) == o.m = "cleanup" /\ o.by = "__exit__"
IsCleanupOp(o) == o.m = "cleanup"

\* a size as list_sizes returns it: id is its place in the returned list
Size(id, price) == [id |-> id, price |-> price]
NoSize == Size(0, 0)

Init ==
    /\ pc = "idle"
    /\ nodes = <<>>
    /\ gce_images = <<>>
    /\ gce_image = 0
    /\ node = 0
    /\ ci = 0
    /\ cleanup_by = "none"
    /\ c_start = 0
    /\ raised = NoError
    /\ block_error = NoError
    /\ received = NoError
    /\ ops = <<>>
    /\ cloud_images = {}
    /\ cloud_nodes = {}
    /\ requests = <<>>
    /\ reap_outcomes = {}
    /\ ssh_caller = "none"
    /\ ssh_attempts = 0
    /\ attempt = 0
    /\ ssh_pending = "none"
    /\ ssh_log = <<>>
    /\ ssh_result = "none"
    /\ image_name = <<>>
    /\ gce_image_name = <<>>
    /\ sizes = <<>>
    /\ size = NoSize
    /\ t_log = <<>>
    /\ storage_log = <<>>
    /\ container = "none"
    /\ entities = <<>>
    /\ si = 0

\* ---- the with-block (BaseService.__enter__ / __exit__) -------------------
Enter ==
    /\ pc = "idle"
    /\ pc' = "block"
    /\ UNCHANGED <<svc_vars, ssh_vars>>

\* the block's own code ends, normally or with an error of its own
BlockEnd ==
    /\ pc = "block"
    /\ \E e \in {NoError, Err("CallerError", "block", 0)} : block_error' = e
    /\ pc' = "exit"
    /\ UNCHANGED <<nodes, gce_images, gce_image, node, ci, cleanup_by, c_start,
                   raised, received, ops, cloud_images, cloud_nodes, requests,
                   reap_outcomes, ssh_vars, test_io, sto_vars>>

\* a call of self.cleanup() starts
StartCleanup(by) ==
    /\ ops' = Append(ops, [m |-> "cleanup", by |-> by])
    /\ cleanup_by' = by
    /\ c_start' = Len(requests)
    /\ ci' = 1
    /\ pc' = "c_nodes"
    /\ UNCHANGED <<nodes, gce_images, gce_image, node, raised, block_error,
                   received, cloud_images, cloud_nodes, requests,
                   reap_outcomes, ssh_vars, test_io, sto_vars>>

ExitCall_NoCleanup ==
    /\ pc = "exit"
    /\ received' = block_error
    /\ pc' = "exited"
    /\ UNCHANGED <<nodes, gce_images, gce_image, node, ci, cleanup_by, c_start,
                   raised, block_error, ops, cloud_images, cloud_nodes,
                   requests, reap_outcomes, ssh_vars, test_io, sto_vars>>

\* __exit__(type_, value, traceback): self.cleanup()
ExitCall ==
    /\ pc = "exit"
    /\ StartCleanup("__exit__")

\* __exit__ ends: it returns None, so the block's error (if any) goes on to
\* the caller; an error leaving cleanup leaves __exit__ and takes its place
ExitReturn ==
    /\ pc \in {"c_returned", "c_raised"}
    /\ cleanup_by = "__exit__"
    /\ received' = IF pc = "c_raised" THEN raised ELSE block_error
    /\ raised' = NoError
    /\ cleanup_by' = "none"
    /\ pc' = "exited"
    /\ UNCHANGED <<nodes, gce_images, gce_image, node, ci, c_start,
                   block_error, ops, cloud_images, cloud_nodes, requests,
                   reap_outcomes, ssh_vars, test_io, sto_vars>>

\* ---- GCEService.cleanup --------------------------------------------------
CallCleanup ==
    /\ pc = "block"
    /\ CountIdx(ops, IsCallerCleanup) < MaxCleanups
    /\ StartCleanup("caller")

DestroyOutcomes == {"true", "false", "notfound", "error"}

\* except ResourceNotFoundError
CleanupCatches(out) == out = "notfound"

\* for node in self.nodes: self.compute.destroy_node(node, destroy_boot_disk=True)
CleanupDestroyNode ==
    /\ pc = "c_nodes"
    /\ ci <= Len(nodes)
    /\ \E out \in DestroyOutcomes :
        /\ requests' = Append(requests, [op |-> "destroy_node", id |-> nodes[ci],
                                         destroy_boot_disk |-> TRUE])
        /\ reap_outcomes' = reap_outcomes \cup {out}
        /\ IF out \in {"true", "false"} \/ CleanupCatches(out)
           THEN /\ ci' = ci + 1
                /\ pc' = "c_nodes"
                /\ raised' = raised
           ELSE /\ ci' = 0
                /\ pc' = "c_raised"
                /\ raised' = Err("ProviderError", "destroy_node", nodes[ci])
    /\ UNCHANGED <<nodes, gce_images, gce_image, node, cleanup_by, c_start,
                   block_error, received, ops, cloud_images, cloud_nodes,
                   ssh_vars, test_io, sto_vars>>

CleanupNodesDone_SkipImages ==
    /\ pc = "c_nodes"
    /\ ci > Len(nodes)
    /\ ci' = 0
    /\ pc' = "c_returned"
    /\ UNCHANGED <<nodes, gce_images, gce_image, node, cleanup_by, c_start,
                   raised, block_error, received, ops, cloud_images,
                   cloud_nodes, requests, reap_outcomes, ssh_vars, test_io, sto_vars>>

\* the loop over self.nodes is exhausted
CleanupNodesDone ==
    /\ pc = "c_nodes"
    /\ ci > Len(nodes)
    /\ ci' = 1
    /\ pc' = "c_images"
    /\ UNCHANGED <<nodes, gce_images, gce_image, node, cleanup_by, c_start,
                   raised, block_error, received, ops, cloud_images,
                   cloud_nodes, requests, reap_outcomes, ssh_vars, test_io, sto_vars>>

\* for gce_image in self.gce_images: gce_image.delete()
CleanupDeleteImage ==
    /\ pc = "c_images"
    /\ ci <= Len(gce_images)
    /\ \E out \in DestroyOutcomes :
        /\ requests' = Append(requests, [op |-> "delete", id |-> gce_images[ci],
                                         destroy_boot_disk |-> FALSE])
        /\ reap_outcomes' = reap_outcomes \cup {out}
        /\ IF out \in {"true", "false"} \/ CleanupCatches(out)
           THEN /\ ci' = ci + 1
                /\ pc' = "c_images"
                /\ raised' = raised
           ELSE /\ ci' = 0
                /\ pc' = "c_raised"
                /\ raised' = Err("ProviderError", "delete", gce_images[ci])
    /\ UNCHANGED <<nodes, gce_images, gce_image, node, cleanup_by, c_start,
                   block_error, received, ops, cloud_images, cloud_nodes,
                   ssh_vars, test_io, sto_vars>>

\* the loop over self.gce_images is exhausted: cleanup returns
CleanupImagesDone ==
    /\ pc = "c_images"
    /\ ci > Len(gce_images)
    /\ ci' = 0
    /\ pc' = "c_returned"
    /\ UNCHANGED <<nodes, gce_images, gce_image, node, cleanup_by, c_start,
                   raised, block_error, received, ops, cloud_images,
                   cloud_nodes, requests, reap_outcomes, ssh_vars, test_io, sto_vars>>

\* control is back in the block after the caller's own cleanup() call: the
\* block goes on, or ends with the error that left cleanup
AfterCleanup ==
    /\ pc \in {"c_returned", "c_raised"}
    /\ cleanup_by = "caller"
    /\ IF pc = "c_returned"
       THEN pc' = "block" /\ block_error' = block_error
       ELSE pc' = "exit" /\ block_error' = raised
    /\ raised' = NoError
    /\ cleanup_by' = "none"
    /\ UNCHANGED <<nodes, gce_images, gce_image, node, ci, c_start, received,
                   ops, cloud_images, cloud_nodes, requests, reap_outcomes,
                   ssh_vars, test_io, sto_vars>>

\* ---- GCEService.test -----------------------------------------------------
TestLocals == <<gce_image, node>>

\* the text '.tar.gz'
TarGz == <<".", "t", "a", "r", ".", "g", "z">>

\* image object names are built from these pieces: a letter, a digit, a
\* hyphen, a dot, and the text .tar.gz
NameTokens == {<<"a">>, <<"1">>, <<"-">>, <<".">>, TarGz}

RECURSIVE NamesUpTo(_)
NamesUpTo(n) ==
    IF n = 0 THEN {<<>>}
    ELSE LET shorter == NamesUpTo(n - 1) IN
         shorter \cup {nm \o tk : nm \in shorter, tk \in NameTokens}

ImageNames == NamesUpTo(MaxNameLen)

\* the characters [a-zA-Z\d] matches, among those of the names above
AlNum == {"a", "1", "t", "r", "g", "z"}

SetMin(S) == CHOOSE x \in S : \A y \in S : x <= y

\* s.split(sep)[0]: s up to the first occurrence of sep, all of s if none
SplitFirst(s, sep) ==
    LET occ == {i \in 1..(Len(s) - Len(sep) + 1) :
                    SubSeq(s, i, i + Len(sep) - 1) = sep}
    IN IF occ = {} THEN s ELSE SubSeq(s, 1, SetMin(occ) - 1)

RECURSIVE SkipNonAlNum(_)
SkipNonAlNum(s) ==
    IF s = <<>> \/ Head(s) \in AlNum THEN s ELSE SkipNonAlNum(Tail(s))

RECURSIVE ReSub(_)
\* re.sub('[^a-zA-Z\d]+', '-', s)
ReSub(s) ==
    IF s = <<>> THEN <<>>
    ELSE IF Head(s) \in AlNum THEN <<Head(s)>> \o ReSub(Tail(s))
    ELSE <<"-">> \o ReSub(SkipNonAlNum(s))

\* gce_image_name = re.sub('[^a-zA-Z\d]+', '-', image.name.split('.tar.gz')[0])
GceImageName(name) == ReSub(SplitFirst(name, TarGz))

\* the lists of sizes list_sizes can return
SizeLists ==
    UNION {[1..n -> 1..MaxPrice] : n \in 0..MaxSizes}

\* a returned list of prices as a list of sizes
AsSizes(prices) == [i \in 1..Len(prices) |-> Size(i, prices[i])]

InsertByPrice_BeforeEqual(sorted, x) ==
    LET k == Cardinality({i \in 1..Len(sorted) : sorted[i].price < x.price})
    IN SubSeq(sorted, 1, k) \o <<x>> \o SubSeq(sorted, k + 1, Len(sorted))

\* one step of the stable sort: x goes after every size that is not dearer
InsertByPrice(sorted, x) ==
    LET k == Cardinality({i \in 1..Len(sorted) : sorted[i].price <= x.price})
    IN SubSeq(sorted, 1, k) \o <<x>> \o SubSeq(sorted, k + 1, Len(sorted))

RECURSIVE SortByPrice(_)
\* sizes.sort(key=lambda x: x.price): list.sort is stable
SortByPrice(ss) ==
    IF ss = <<>> THEN <<>>
    ELSE InsertByPrice(SortByPrice(SubSeq(ss, 1, Len(ss) - 1)), ss[Len(ss)])

Step(step, out) == [step |-> step, out |-> out]

\* test(image) is called inside the block
CallTest ==
    /\ pc = "block"
    /\ CountIdx(ops, IsTestOp) < MaxTests
    /\ ops' = Append(ops, [m |-> "test", by |-> "caller"])
    /\ gce_image' = 0
    /\ node' = 0
    /\ \E name \in ImageNames : image_name' = name
    /\ gce_image_name' = <<>>
    /\ sizes' = <<>>
    /\ size' = NoSize
    /\ t_log' = <<>>
    /\ pc' = "t_create_image"
    /\ UNCHANGED <<nodes, gce_images, ci, cleanup_by, c_start, raised,
                   block_error, received, cloud_images, cloud_nodes, requests,
                   reap_outcomes, ssh_vars, sto_vars>>

\* the exception e leaves test
TestRaise(e) ==
    /\ raised' = e
    /\ pc' = "t_raised"

RecordImage_Skip(images, img) == images

RecordImage_Twice(images, img) == Append(Append(images, img), img)

\* self.gce_images.append(gce_image)
RecordImage(images, img) == Append(images, img)

RecordNode_Skip(ns, n) == ns

\* self.nodes.append(node)
RecordNode(ns, n) == Append(ns, n)

\* gce_image_name = ...; gce_image = self.compute.ex_create_image(gce_image_name,
\* image_url, wait_for_completion=True); self.gce_images.append(gce_image)
TestCreateImage ==
    /\ pc = "t_create_image"
    /\ gce_image_name' = GceImageName(image_name)
    /\ \/ LET img == Cardinality(cloud_images) + 1 IN
          /\ cloud_images' = cloud_images \cup {img}
          /\ gce_image' = img
          /\ gce_images' = RecordImage(gce_images, img)
          /\ t_log' = Append(t_log, Step("ex_create_image", "ok"))
          /\ pc' = "t_list_locations"
          /\ raised' = raised
       \/ /\ TestRaise(Err("ProviderError", "ex_create_image", 0))
          /\ t_log' = Append(t_log, Step("ex_create_image", "failed"))
          /\ UNCHANGED <<cloud_images, gce_image, gce_images>>
    /\ UNCHANGED <<nodes, node, ci, cleanup_by, c_start, block_error, received,
                   ops, cloud_nodes, requests, reap_outcomes, ssh_vars,
                   image_name, sizes, size, sto_vars>>

\* location = self.compute.list_locations()[0]
TestListLocations ==
    /\ pc = "t_list_locations"
    /\ \E out \in {"some", "empty", "error"} :
        CASE out = "some"  -> pc' = "t_list_sizes" /\ raised' = raised
          [] out = "empty" -> TestRaise(Err("IndexError", "list_locations", 0))
          [] out = "error" -> TestRaise(Err("ProviderError", "list_locations", 0))
    /\ image_name' = <<>>
    /\ gce_image_name' = <<>>
    /\ UNCHANGED <<nodes, gce_images, gce_image, node, ci, cleanup_by, c_start,
                   block_error, received, ops, cloud_images, cloud_nodes,
                   requests, reap_outcomes, ssh_vars, sizes, size, t_log,
                   sto_vars>>

\* sizes = self.compute.list_sizes(location=location)
\* sizes.sort(key=lambda x: x.price); size = sizes[0]
TestListSizes ==
    /\ pc = "t_list_sizes"
    /\ \/ \E prices \in SizeLists :
            /\ sizes' = AsSizes(prices)
            /\ IF prices # <<>>
               THEN /\ size' = SortByPrice(sizes')[1]
                    /\ pc' = "t_create_node"
                    /\ raised' = raised
               ELSE /\ size' = size
                    /\ TestRaise(Err("IndexError", "list_sizes", 0))
       \/ /\ TestRaise(Err("ProviderError", "list_sizes", 0))
          /\ UNCHANGED <<sizes, size>>
    /\ UNCHANGED <<nodes, gce_images, gce_image, node, ci, cleanup_by, c_start,
                   block_error, received, ops, cloud_images, cloud_nodes,
                   requests, reap_outcomes, ssh_vars, image_name,
                   gce_image_name, t_log, sto_vars>>

\* node = self.compute.create_node(gce_image.name, size, gce_image,
\* location=location); self.nodes.append(node)
TestCreateNode ==
    /\ pc = "t_create_node"
    /\ \/ LET n == Cardinality(cloud_nodes) + 1 IN
          /\ cloud_nodes' = cloud_nodes \cup {n}
          /\ node' = n
          /\ nodes' = RecordNode(nodes, n)
          /\ t_log' = Append(t_log, Step("create_node", "ok"))
          /\ pc' = "t_wait"
          /\ raised' = raised
       \/ /\ TestRaise(Err("ProviderError", "create_node", 0))
          /\ t_log' = Append(t_log, Step("create_node", "failed"))
          /\ UNCHANGED <<cloud_nodes, node, nodes>>
    /\ UNCHANGED <<gce_images, gce_image, ci, cleanup_by, c_start, block_error,
                   received, ops, cloud_images, requests, reap_outcomes,
                   ssh_vars, image_name, gce_image_name, sizes, size,
                   sto_vars>>

TestWaitUntilRunning_GoOn ==
    /\ pc = "t_wait"
    /\ \/ t_log' = Append(t_log, Step("wait_until_running", "ok"))
       \/ t_log' = Append(t_log, Step("wait_until_running", "failed"))
    /\ pc' = "t_probe"
    /\ sizes' = <<>>
    /\ size' = NoSize
    /\ UNCHANGED <<nodes, gce_images, gce_image, node, ci, cleanup_by, c_start,
                   raised, block_error, received, ops, cloud_images,
                   cloud_nodes, requests, reap_outcomes, ssh_vars, image_name,
                   gce_image_name, sto_vars>>

\* self.compute.wait_until_running((node,), wait_period=10, timeout=600)
TestWaitUntilRunning ==
    /\ pc = "t_wait"
    /\ \/ /\ pc' = "t_probe"
          /\ raised' = raised
          /\ t_log' = Append(t_log, Step("wait_until_running", "ok"))
       \/ /\ TestRaise(Err("ProviderError", "wait_until_running", node))
          /\ t_log' = Append(t_log, Step("wait_until_running", "failed"))
    /\ sizes' = <<>>
    /\ size' = NoSize
    /\ UNCHANGED <<nodes, gce_images, gce_image, node, ci, cleanup_by, c_start,
                   block_error, received, ops, cloud_images, cloud_nodes,
                   requests, reap_outcomes, ssh_vars, image_name,
                   gce_image_name, sto_vars>>

\* ---- ssh_connection_works ------------------------------------------------
\* the function is entered: ssh = paramiko.SSHClient(); attempt = 0
SshStart(caller, attempts) ==
    /\ ssh_caller' = caller
    /\ ssh_attempts' = attempts
    /\ attempt' = 0
    /\ ssh_pending' = "none"
    /\ ssh_log' = <<>>
    /\ ssh_result' = "none"
    /\ pc' = "ssh_connect"

\* a direct call ssh_connection_works(username, ip, keypath, attempts, interval)
SshCall ==
    /\ pc = "idle"
    /\ \E a \in -1..MaxAttempts : SshStart("caller", a)
    /\ UNCHANGED svc_vars

\* what a step of test leaves alone when it only moves on or raises
TestProbeFrame ==
    UNCHANGED <<nodes, gce_images, gce_image, node, ci, cleanup_by, c_start,
                block_error, received, ops, cloud_images, cloud_nodes,
                requests, reap_outcomes, image_name, gce_image_name, sizes,
                size, sto_vars>>

TestProbe_DefaultAttempts ==
    /\ pc = "t_probe"
    /\ \/ /\ SshStart("test", 1)
          /\ t_log' = Append(t_log, Step("ssh_connection_works", "started"))
          /\ raised' = raised
       \/ /\ TestRaise(Err("IndexError", "public_ips", node))
          /\ UNCHANGED <<ssh_vars, t_log>>
    /\ TestProbeFrame

\* the call in test: ssh_connection_works(user, node.public_ips[0], keypath,
\* attempts=60, interval=60); node.public_ips[0] fails on an empty list
TestProbe ==
    /\ pc = "t_probe"
    /\ \/ /\ SshStart("test", SSH_ATTEMPTS)
          /\ t_log' = Append(t_log, Step("ssh_connection_works", "started"))
          /\ raised' = raised
       \/ /\ TestRaise(Err("IndexError", "public_ips", node))
          /\ UNCHANGED <<ssh_vars, t_log>>
    /\ TestProbeFrame

RetryExhausted_Late(att, attempts) == att > attempts

RetryExhausted_Equal(att, attempts) == att = attempts

\* if attempt >= attempts: return False
RetryExhausted(att, attempts) == att >= attempts

IsRetryable_CatchAll(out) == out \in {"fail", "other"}

\* except (paramiko.BadHostKeyException, paramiko.AuthenticationException,
\*         paramiko.SSHException, socket.error): "fail" is a failure of one of
\* these classes, "other" a failure of any other class
IsRetryable(out) == out = "fail"

\* attempt += 1; ssh.connect(...) and the except clause up to the sleep
SshConnect ==
    /\ pc = "ssh_connect"
    /\ attempt' = attempt + 1
    /\ \E out \in {"ok", "fail", "other"} :
        CASE out = "ok" ->
                /\ ssh_log' = Append(ssh_log, "connect_ok")
                /\ ssh_pending' = "True"
                /\ pc' = "ssh_close"
          [] out # "ok" /\ IsRetryable(out) ->
                /\ ssh_log' = Append(ssh_log, IF out = "fail" THEN "connect_fail"
                                                              ELSE "connect_other")
                /\ IF RetryExhausted(attempt', ssh_attempts)
                   THEN ssh_pending' = "False" /\ pc' = "ssh_close"
                   ELSE ssh_pending' = "none" /\ pc' = "ssh_sleep"
          [] out # "ok" /\ ~IsRetryable(out) ->
                /\ ssh_log' = Append(ssh_log, IF out = "fail" THEN "connect_fail"
                                                              ELSE "connect_other")
                /\ ssh_pending' = "raised"
                /\ pc' = "ssh_close"
    /\ UNCHANGED <<svc_vars, ssh_caller, ssh_attempts, ssh_result>>

SshSleep_NoClose ==
    /\ pc = "ssh_sleep"
    /\ ssh_log' = Append(ssh_log, "sleep")
    /\ ssh_pending' = "none"
    /\ pc' = "ssh_connect"
    /\ UNCHANGED <<svc_vars, ssh_caller, ssh_attempts, attempt, ssh_result>>

\* time.sleep(interval)
SshSleep ==
    /\ pc = "ssh_sleep"
    /\ ssh_log' = Append(ssh_log, "sleep")
    /\ ssh_pending' = "continue"
    /\ pc' = "ssh_close"
    /\ UNCHANGED <<svc_vars, ssh_caller, ssh_attempts, attempt, ssh_result>>

\* finally: ssh.close(), then the pending return, raise or next iteration
SshClose ==
    /\ pc = "ssh_close"
    /\ ssh_log' = Append(ssh_log, "close")
    /\ IF ssh_pending = "continue"
       THEN pc' = "ssh_connect" /\ ssh_result' = ssh_result
       ELSE pc' = "ssh_done" /\ ssh_result' = ssh_pending
    /\ ssh_pending' = "none"
    /\ UNCHANGED <<svc_vars, ssh_caller, ssh_attempts, attempt>>

\* if not ssh_connection_works(...): raise SSHConnectionError(... node.name)
TestProbeResult ==
    /\ pc = "ssh_done"
    /\ ssh_caller = "test"
    /\ CASE ssh_result = "True"   -> pc' = "t_returned" /\ raised' = raised
         [] ssh_result = "False"  -> TestRaise(Err("SSHConnectionError", "test", node))
         [] ssh_result = "raised" -> TestRaise(Err("OtherError", "ssh.connect", 0))
    /\ t_log' = [t_log EXCEPT ![Len(t_log)].out =
                    IF ssh_result = "True" THEN "ok" ELSE "failed"]
    /\ ssh_caller' = "none"
    /\ ssh_attempts' = 0
    /\ attempt' = 0
    /\ ssh_pending' = "none"
    /\ ssh_log' = <<>>
    /\ ssh_result' = "none"
    /\ UNCHANGED <<nodes, gce_images, gce_image, node, ci, cleanup_by, c_start,
                   block_error, received, ops, cloud_images, cloud_nodes,
                   requests, reap_outcomes, image_name, gce_image_name, sizes,
                   size, sto_vars>>

\* control is back in the block after test: the block goes on, or ends with
\* the error that left test
AfterTest ==
    /\ pc \in {"t_returned", "t_raised"}
    /\ IF pc = "t_returned"
       THEN pc' = "block" /\ block_error' = block_error
       ELSE pc' = "exit" /\ block_error' = raised
    /\ raised' = NoError
    /\ gce_image' = 0
    /\ node' = 0
    /\ image_name' = <<>>
    /\ gce_image_name' = <<>>
    /\ sizes' = <<>>
    /\ size' = NoSize
    /\ t_log' = <<>>
    /\ UNCHANGED <<nodes, gce_images, ci, cleanup_by, c_start, received, ops,
                   cloud_images, cloud_nodes, requests, reap_outcomes, ssh_vars, sto_vars>>

\* ---- GCEService.upload ---------------------------------------------------
\* one call to the storage driver or to requests, with its outcome
Call(call, arg, role, out, code) ==
    [call |-> call, arg |-> arg, role |-> role, out |-> out, code |-> code]

\* the exception e leaves upload
UploadRaise(e) ==
    /\ raised' = e
    /\ pc' = "u_raised"

UploadFrame ==
    UNCHANGED <<nodes, gce_images, gce_image, node, ci, cleanup_by, c_start,
                block_error, received, ops, cloud_images, cloud_nodes,
                requests, reap_outcomes, test_io, entities, si, ssh_vars>>

\* upload(image_url) is called on a service
CallUpload ==
    /\ pc = "idle"
    /\ storage_log' = <<>>
    /\ container' = "none"
    /\ raised' = raised
    /\ pc' = "u_get_container"
    /\ UploadFrame

MissingContainer_Any(out) == out \in {"found", "notfound"}

\* except ContainerDoesNotExistError
MissingContainer(out) == out = "notfound"

\* try: container = self.storage.get_container(container_name)
UploadGetContainer ==
    /\ pc = "u_get_container"
    /\ \E out \in {"found", "notfound", "error"} :
        /\ storage_log' = Append(storage_log,
              Call("get_container", "container_name", "none", out, 0))
        /\ IF MissingContainer(out)
           THEN pc' = "u_create_container" /\ UNCHANGED <<container, raised>>
           ELSE IF out = "found"
           THEN pc' = "u_fetch" /\ container' = "existing" /\ raised' = raised
           ELSE /\ UploadRaise(Err("ProviderError", "get_container", 0))
                /\ container' = container
    /\ UploadFrame

\* container = self.storage.create_container(container_name)
UploadCreateContainer ==
    /\ pc = "u_create_container"
    /\ \E out \in {"ok", "error"} :
        /\ storage_log' = Append(storage_log,
              Call("create_container", "container_name", "none", out, 0))
        /\ IF out = "ok"
           THEN pc' = "u_fetch" /\ container' = "created" /\ raised' = raised
           ELSE /\ UploadRaise(Err("ProviderError", "create_container", 0))
                /\ container' = container
    /\ UploadFrame

\* the answers requests.get can give: resp.ok and resp.status_code
Responses ==
    {[ok |-> TRUE, status_code |-> 200],
     [ok |-> FALSE, status_code |-> 404],
     [ok |-> FALSE, status_code |-> 500],
     [ok |-> FALSE, status_code |-> -1]}

FetchFailed_Never(resp) == FALSE

\* if not resp.ok
FetchFailed(resp) == ~resp.ok

\* resp = requests.get(image_url, stream=True); if not resp.ok: raise ImageURLError
UploadFetch ==
    /\ pc = "u_fetch"
    /\ \/ \E resp \in Responses :
            /\ storage_log' = Append(storage_log,
                  Call("requests.get", "image_url", "none",
                       IF resp.ok THEN "ok" ELSE "not_ok", resp.status_code))
            /\ IF FetchFailed(resp)
               THEN UploadRaise(Err("ImageURLError", "image_url",
                                    resp.status_code))
               ELSE pc' = "u_upload" /\ raised' = raised
       \/ /\ storage_log' = Append(storage_log,
                Call("requests.get", "image_url", "none", "error", 0))
          /\ UploadRaise(Err("RequestException", "requests.get", 0))
    /\ container' = container
    /\ UploadFrame

\* return self.storage.upload_object_via_stream(iterator, container, object_name)
UploadObject ==
    /\ pc = "u_upload"
    /\ \E out \in {"ok", "error"} :
        /\ storage_log' = Append(storage_log,
              Call("upload_object_via_stream", container, "none", out, 0))
        /\ IF out = "ok"
           THEN pc' = "u_returned" /\ raised' = raised
           ELSE UploadRaise(Err("ProviderError", "upload_object_via_stream", 0))
    /\ container' = container
    /\ UploadFrame

\* ---- GCEService.share ----------------------------------------------------
Entities == {"e1", "e2"}

EntityLists == UNION {[1..n -> Entities] : n \in 0..MaxEntities}

ShareFrame ==
    UNCHANGED <<nodes, gce_images, gce_image, node, ci, cleanup_by, c_start,
                block_error, received, ops, cloud_images, cloud_nodes,
                requests, reap_outcomes, test_io, container, entities,
                ssh_vars>>

\* share(image, entities) is called on a service
CallShare ==
    /\ pc = "idle"
    /\ \E es \in EntityLists : entities' = es
    /\ si' = 1
    /\ storage_log' = <<>>
    /\ pc' = "s_grant"
    /\ UNCHANGED <<nodes, gce_images, gce_image, node, ci, cleanup_by, c_start,
                   raised, block_error, received, ops, cloud_images,
                   cloud_nodes, requests, reap_outcomes, test_io, container,
                   ssh_vars>>

ShareGrant_BestEffort ==
    /\ pc = "s_grant"
    /\ si <= Len(entities)
    /\ \E out \in {"ok", "error"} :
        storage_log' = Append(storage_log,
              Call("ex_set_permissions", entities[si], "READER", out, 0))
    /\ si' = si + 1
    /\ pc' = "s_grant"
    /\ raised' = raised
    /\ ShareFrame

\* for entity in entities: self.storage.ex_set_permissions(..., entity=entity,
\* role='READER')
ShareGrant ==
    /\ pc = "s_grant"
    /\ si <= Len(entities)
    /\ \E out \in {"ok", "error"} :
        /\ storage_log' = Append(storage_log,
              Call("ex_set_permissions", entities[si], "READER", out, 0))
        /\ IF out = "ok"
           THEN si' = si + 1 /\ pc' = "s_grant" /\ raised' = raised
           ELSE /\ si' = si
                /\ pc' = "s_raised"
                /\ raised' = Err("ProviderError", "ex_set_permissions", si)
    /\ ShareFrame

\* the loop over entities is exhausted: share returns
ShareDone ==
    /\ pc = "s_grant"
    /\ si > Len(entities)
    /\ pc' = "s_returned"
    /\ UNCHANGED <<svc_vars, ssh_vars>>

Next ==
    \/ Enter
    \/ BlockEnd
    \/ ExitCall
    \/ ExitReturn
    \/ CallCleanup
    \/ CleanupDestroyNode
    \/ CleanupNodesDone
    \/ CleanupDeleteImage
    \/ CleanupImagesDone
    \/ AfterCleanup
    \/ CallTest
    \/ TestCreateImage
    \/ TestListLocations
    \/ TestListSizes
    \/ TestCreateNode
    \/ TestWaitUntilRunning
    \/ TestProbe
    \/ TestProbeResult
    \/ AfterTest
    \/ SshCall
    \/ SshConnect
    \/ SshSleep
    \/ SshClose
    \/ CallUpload
    \/ UploadGetContainer
    \/ UploadCreateContainer
    \/ UploadFetch
    \/ UploadObject
    \/ CallShare
    \/ ShareGrant
    \/ ShareDone

Spec == Init /\ [][Next]_vars

TypeOK ==
    /\ nodes \in Seq(1..MaxTests)
    /\ gce_images \in Seq(1..MaxTests)
    /\ ssh_result \in {"none", "True", "False", "raised"}

\* ---- vocabulary of the properties ----------------------------------------
TestOp == [m |-> "test", by |-> "caller"]

\* a request op(id) has been issued to the provider after the first `from`
RequestedAfter(from, op, id) ==
    \E i \in (from + 1)..Len(requests) :
        requests[i].op = op /\ requests[i].id = id

Requested(op, id) == RequestedAfter(0, op, id)

ReqCount(op, id) ==
    Cardinality({i \in 1..Len(requests) :
                    requests[i].op = op /\ requests[i].id = id})

\* the with-block ended with an error that left test
TestErrorOrigins ==
    {"ex_create_image", "list_locations", "list_sizes", "create_node",
     "wait_until_running", "public_ips", "test", "ssh.connect"}

TestFailedInBlock == block_error.origin \in TestErrorOrigins

\* ssh_connection_works is running on behalf of test
ProbeRunning ==
    pc \in {"ssh_connect", "ssh_sleep", "ssh_close", "ssh_done"}
        /\ ssh_caller = "test"

\* no test call follows the first cleanup call
NoTestAfterCleanup ==
    \A i, j \in 1..Len(ops) :
        (i < j /\ IsCleanupOp(ops[i])) => ~IsTestOp(ops[j])

IsConnect(e) == e \in {"connect_ok", "connect_fail", "connect_other"}
ConnectIdx == {i \in 1..Len(ssh_log) : IsConnect(ssh_log[i])}
EventCount(e) == Cardinality({i \in 1..Len(ssh_log) : ssh_log[i] = e})

\* ---- C1 ------------------------------------------------------------------
\* C1: around one test call in a with-block, whichever step of test failed or
\* none, once the block has exited a destroy_node request has been issued for
\* every instance create_node returned and a delete request for every image
\* ex_create_image returned, provided no destroy/delete call raised an error
\* (a ResourceNotFoundError, which cleanup catches, does not break this).
C1_CreatedResourcesReaped ==
    (pc = "exited" /\ CountIdx(ops, IsTestOp) = 1
        /\ "error" \notin reap_outcomes)
    => /\ \A n \in cloud_nodes : Requested("destroy_node", n)
       /\ \A i \in cloud_images : Requested("delete", i)

C1_Witness ==
    /\ pc = "exited"
    /\ CountIdx(ops, IsTestOp) = 1
    /\ reap_outcomes \subseteq {"true", "false"}
    /\ received.origin = "wait_until_running"
    /\ cloud_nodes = {1} /\ cloud_images = {1}
    /\ Requested("destroy_node", 1) /\ Requested("delete", 1)

\* ---- C2 ------------------------------------------------------------------
\* C2: once the with-block has been left, normally or with an error, __exit__
\* has called cleanup exactly once and that call is the last call made on the
\* service.
C2_CleanupOnceAtExit ==
    pc = "exited"
    => /\ CountIdx(ops, IsExitCleanup) = 1
       /\ Len(ops) > 0
       /\ IsExitCleanup(ops[Len(ops)])

C2_Witness ==
    /\ pc = "exited"
    /\ block_error # NoError
    /\ Len(ops) = 3
    /\ ops[1] = TestOp
    /\ IsCallerCleanup(ops[2])
    /\ IsExitCleanup(ops[3])

\* ---- C3 ------------------------------------------------------------------
\* C3: when test failed inside the with-block, the code around the block
\* receives that same failure, whatever the destroy/delete calls of cleanup
\* did.
C3_TestFailurePropagates ==
    (pc = "exited" /\ TestFailedInBlock) => received = block_error

\* ---- C4 ------------------------------------------------------------------
\* C4: when the one test call on a fresh service has returned or raised and
\* both the image registration and the instance launch succeeded, the image
\* list holds exactly that image and the node list exactly that instance.
C4_OneImageOneNode ==
    (pc \in {"t_returned", "t_raised"} /\ ops = <<TestOp>>
        /\ Cardinality(cloud_images) = 1 /\ Cardinality(cloud_nodes) = 1)
    => /\ Len(gce_images) = 1 /\ Range(gce_images) = cloud_images
       /\ Len(nodes) = 1 /\ Range(nodes) = cloud_nodes

C4_Witness ==
    /\ pc = "t_raised"
    /\ ops = <<TestOp>>
    /\ raised.type = "SSHConnectionError"
    /\ Len(gce_images) = 1
    /\ Len(nodes) = 1

\* ---- C5 ------------------------------------------------------------------
\* C5: while test is at or past list_locations the image it registered is in
\* the image list, while it is at or past wait_until_running the instance it
\* launched is in the node list, and wherever control leaves test every image
\* and instance the provider has returned is in the lists.
C5_RecordedBeforeLaterCalls ==
    /\ (pc \in {"t_list_locations", "t_list_sizes", "t_create_node", "t_wait",
                "t_probe"} \/ ProbeRunning)
       => (gce_image # 0 /\ gce_image \in Range(gce_images))
    /\ (pc \in {"t_wait", "t_probe"} \/ ProbeRunning)
       => (node # 0 /\ node \in Range(nodes))
    /\ pc \in {"t_returned", "t_raised"}
       => /\ cloud_images \subseteq Range(gce_images)
          /\ cloud_nodes \subseteq Range(nodes)

C5_Witness ==
    /\ pc = "t_raised"
    /\ raised.origin = "list_sizes"
    /\ gce_image # 0
    /\ gce_image \in Range(gce_images)
    /\ cloud_nodes = {}

\* ---- C6 ------------------------------------------------------------------
\* C6: after cleanup returns, the node list and the image list are empty.
C6_ListsEmptyAfterCleanup ==
    pc = "c_returned" => (nodes = <<>> /\ gce_images = <<>>)

\* ---- C7 ------------------------------------------------------------------
\* C7: over any number of cleanup calls with no test call in between, every
\* recorded instance has received exactly one destroy_node request and every
\* recorded image exactly one delete request when a cleanup returns.
C7_CleanupIdempotent ==
    (pc = "c_returned" /\ NoTestAfterCleanup)
    => /\ \A n \in Range(nodes) : ReqCount("destroy_node", n) = 1
       /\ \A i \in Range(gce_images) : ReqCount("delete", i) = 1

\* ---- C8 ------------------------------------------------------------------
\* C8: cleanup never ends by raising an error to its caller.
C8_CleanupNeverRaises ==
    pc # "c_raised"

\* ---- C9 ------------------------------------------------------------------
\* C9: when a cleanup call ends, it has issued a destroy_node request (with
\* boot disk) for every recorded instance and a delete request for every
\* recorded image, whatever the outcome of the earlier requests.
C9_EveryResourceRequested ==
    pc \in {"c_returned", "c_raised"}
    => /\ \A n \in Range(nodes) :
            \E i \in (c_start + 1)..Len(requests) :
                requests[i] = [op |-> "destroy_node", id |-> n,
                               destroy_boot_disk |-> TRUE]
       /\ \A g \in Range(gce_images) : RequestedAfter(c_start, "delete", g)

\* ---- C10 -----------------------------------------------------------------
\* C10: for attempts >= 1, no connect follows a successful connect; the
\* function returns True exactly when a connect succeeded, False only after
\* exactly `attempts` connects that all failed with a connection-level
\* failure; and a sleep happens right after every failed connect that is
\* followed by another connect, and nowhere else.
C10_RetryLoop ==
    ssh_attempts >= 1
    => /\ \A i, j \in ConnectIdx : i < j => ssh_log[i] = "connect_fail"
       /\ Cardinality(ConnectIdx) <= ssh_attempts
       /\ pc = "ssh_done"
          => /\ ssh_result = "True" <=> EventCount("connect_ok") = 1
             /\ ssh_result = "False"
                => /\ EventCount("connect_fail") = ssh_attempts
                   /\ Cardinality(ConnectIdx) = ssh_attempts
             /\ \A i \in ConnectIdx :
                    (\E j \in ConnectIdx : i < j) <=> ssh_log[i + 1] = "sleep"
             /\ EventCount("sleep") = Cardinality(ConnectIdx) - 1

C10_Witness ==
    /\ pc = "ssh_done"
    /\ ssh_caller = "caller"
    /\ ssh_attempts = 2
    /\ ssh_result = "False"
    /\ ssh_log = <<"connect_fail", "sleep", "close", "connect_fail", "close">>

\* ---- C11 -----------------------------------------------------------------
\* C11: a connect failure outside the connection-level classes ends the
\* function at that attempt: no connect and no sleep follows it, and the
\* function ends by raising, returning neither True nor False.
C11_OtherFailurePropagates ==
    \A i \in 1..Len(ssh_log) :
        ssh_log[i] = "connect_other"
        => /\ \A j \in (i + 1)..Len(ssh_log) : ssh_log[j] = "close"
           /\ pc \in {"ssh_close", "ssh_done"}
           /\ pc = "ssh_close" => ssh_pending = "raised"
           /\ pc = "ssh_done" => ssh_result = "raised"

C11_Witness ==
    /\ pc = "ssh_done"
    /\ ssh_caller = "caller"
    /\ ssh_attempts = 3
    /\ ssh_result = "raised"
    /\ ssh_log = <<"connect_fail", "sleep", "close", "connect_other", "close">>

\* ---- C12 -----------------------------------------------------------------
\* C12: every connect is followed by exactly one close before the next
\* connect and before the function ends, whatever the connect's outcome: a
\* connect after the first comes right after a close, a close comes right
\* after a connect or after the sleep that follows a connect, and the log of
\* a finished call ends with a close.
C12_CloseAfterEveryConnect ==
    /\ \A k \in 1..Len(ssh_log) :
          /\ IsConnect(ssh_log[k]) => (k = 1 \/ ssh_log[k - 1] = "close")
          /\ ssh_log[k] = "close"
             => /\ k > 1
                /\ \/ IsConnect(ssh_log[k - 1])
                   \/ /\ k > 2
                      /\ ssh_log[k - 1] = "sleep"
                      /\ IsConnect(ssh_log[k - 2])
    /\ pc = "ssh_done"
       => /\ Len(ssh_log) > 0
          /\ ssh_log[Len(ssh_log)] = "close"
          /\ EventCount("close") = Cardinality(ConnectIdx)

C12_Witness ==
    /\ pc = "ssh_done"
    /\ ssh_caller = "caller"
    /\ ssh_result = "True"
    /\ ssh_log = <<"connect_fail", "sleep", "close", "connect_ok", "close">>

\* ---- C13 -----------------------------------------------------------------
\* C13: the probe of test has a budget of 60 attempts; when every attempt up
\* to the budget failed, test raises SSHConnectionError naming the instance;
\* when an attempt within the budget succeeded, it was the last attempt and
\* test returns normally.
C13_ProbeBudget ==
    [][(pc = "ssh_done" /\ ssh_caller = "test")
       => /\ ssh_attempts = 60
          /\ Cardinality(ConnectIdx) <= 60
          /\ (EventCount("connect_fail") = 60)
             => /\ ssh_result = "False"
                /\ pc' = "t_raised"
                /\ raised' = Err("SSHConnectionError", "test", node)
                /\ node \in cloud_nodes
          /\ (EventCount("connect_ok") > 0)
             => /\ ssh_log[Len(ssh_log) - 1] = "connect_ok"
                /\ EventCount("connect_ok") = 1
                /\ ssh_result = "True"
                /\ pc' = "t_returned"
                /\ raised' = NoError]_vars

C13_Witness ==
    /\ pc = "t_raised"
    /\ raised.type = "SSHConnectionError"
    /\ raised.id = node
    /\ node = 2

\* ---- C16 -----------------------------------------------------------------
\* C16: for every non-empty list of sizes list_sizes returned, the size test
\* passes to create_node is one of the list, no size of the list is cheaper,
\* and no size of equal price comes before it in the returned order.
C16_CheapestSizeFirstOfTies ==
    (pc \in {"t_create_node", "t_wait"} \/ (pc = "t_raised" /\ sizes # <<>>))
    => /\ size.id \in 1..Len(sizes)
       /\ sizes[size.id] = size
       /\ \A i \in 1..Len(sizes) :
            /\ size.price <= sizes[i].price
            /\ sizes[i].price = size.price => size.id <= i

C16_Witness ==
    /\ pc = "t_wait"
    /\ Len(sizes) = 3
    /\ sizes[1].price = 2
    /\ sizes[2].price = 1
    /\ sizes[3].price = 1
    /\ size = Size(2, 1)

\* ---- C17 -----------------------------------------------------------------
StripSuffix(s, suffix) ==
    IF Len(s) >= Len(suffix)
          /\ SubSeq(s, Len(s) - Len(suffix) + 1, Len(s)) = suffix
    THEN SubSeq(s, 1, Len(s) - Len(suffix))
    ELSE s

IsAlNum(c) == c \in AlNum

NameRegistered ==
    pc = "t_list_locations"
        \/ (pc = "t_raised" /\ raised.origin = "ex_create_image")

\* C17: the name test registers contains only alphanumerics and hyphens, has
\* no two adjacent hyphens, and its alphanumeric characters are those of the
\* object name without its .tar.gz suffix, in the same order.
C17_SanitizedName ==
    NameRegistered
    => /\ \A i \in 1..Len(gce_image_name) :
            gce_image_name[i] \in AlNum \cup {"-"}
       /\ \A i \in 1..(Len(gce_image_name) - 1) :
            ~(gce_image_name[i] = "-" /\ gce_image_name[i + 1] = "-")
       /\ SelectSeq(gce_image_name, IsAlNum)
            = SelectSeq(StripSuffix(image_name, TarGz), IsAlNum)

\* ---- C18 -----------------------------------------------------------------
\* C18 as stated: the lists never hold more than one image and one instance.
C18_AtMostOneRun ==
    Len(gce_images) <= 1 /\ Len(nodes) <= 1

\* C18 amended: a service does not refuse a second run; every test call
\* registers at most one image and launches at most one instance, so the
\* lists never hold more images or instances than test has been called.
C18_AtMostOnePerRun ==
    /\ Len(gce_images) <= CountIdx(ops, IsTestOp)
    /\ Len(nodes) <= CountIdx(ops, IsTestOp)
    /\ Cardinality(cloud_images) = Len(gce_images)
    /\ Cardinality(cloud_nodes) = Len(nodes)

C18_Witness ==
    /\ pc = "t_returned"
    /\ CountIdx(ops, IsTestOp) = 2
    /\ gce_images = <<1, 2>>
    /\ nodes = <<1, 2>>

\* ---- C19 -----------------------------------------------------------------
StepOrder ==
    <<"ex_create_image", "create_node", "wait_until_running",
      "ssh_connection_works">>

\* C19: the provider steps a test run has started are, in order, image
\* registration, instance launch, wait-for-running and SSH probe, each once,
\* and every step but the last started one has succeeded.
C19_StepsInOrder ==
    /\ Len(t_log) <= Len(StepOrder)
    /\ \A i \in 1..Len(t_log) :
          /\ t_log[i].step = StepOrder[i]
          /\ i < Len(t_log) => t_log[i].out = "ok"

C19_Witness ==
    /\ pc = "t_raised"
    /\ Len(t_log) = 3
    /\ t_log[3] = Step("wait_until_running", "failed")

\* ---- C14 -----------------------------------------------------------------
CallIdx(call) == {i \in 1..Len(storage_log) : storage_log[i].call = call}

Uploading ==
    pc \in {"u_get_container", "u_create_container", "u_fetch", "u_upload",
            "u_returned", "u_raised"}

\* C14: upload fetches the container exactly once; when the container does
\* not exist it calls create_container exactly once, before any object
\* upload; when the container exists it never calls create_container.
C14_ContainerCreatedOnceIfMissing ==
    Uploading
    => /\ Cardinality(CallIdx("get_container"))
            = (IF pc = "u_get_container" THEN 0 ELSE 1)
       /\ pc \notin {"u_get_container", "u_create_container"}
          => /\ storage_log[1].out = "notfound"
                => /\ CallIdx("create_container") = {2}
                   /\ \A i \in CallIdx("upload_object_via_stream") : i > 2
             /\ storage_log[1].out = "found"
                => CallIdx("create_container") = {}

C14_Witness ==
    /\ pc = "u_returned"
    /\ Len(storage_log) = 4
    /\ storage_log[1].out = "notfound"
    /\ storage_log[2].call = "create_container"
    /\ storage_log[4].call = "upload_object_via_stream"
    /\ storage_log[4].arg = "created"

\* ---- C15 -----------------------------------------------------------------
\* C15: when the GET of the source URL answers with a non-success status,
\* upload ends at once with ImageURLError carrying the URL and that status
\* code: the GET is not repeated and no object upload is issued.
C15_BadStatusFailsUpload ==
    \A i \in CallIdx("requests.get") :
        storage_log[i].out = "not_ok"
        => /\ pc = "u_raised"
           /\ raised = Err("ImageURLError", "image_url", storage_log[i].code)
           /\ CallIdx("requests.get") = {i}
           /\ CallIdx("upload_object_via_stream") = {}

C15_Witness ==
    /\ pc = "u_raised"
    /\ raised = Err("ImageURLError", "image_url", -1)
    /\ storage_log[Len(storage_log)].call = "requests.get"

\* ---- C20 -----------------------------------------------------------------
Sharing == pc \in {"s_grant", "s_returned", "s_raised"}

\* C20: share issues READER grants for the entities of its input, one each,
\* in the input's order; a failed grant is the last one issued and share
\* raises its failure, so the earlier grants stand and the later entities get
\* none; share returns only after a successful grant for every entity.
C20_ShareFailsFast ==
    Sharing
    => /\ Len(storage_log) <= Len(entities)
       /\ \A i \in 1..Len(storage_log) :
            /\ storage_log[i].call = "ex_set_permissions"
            /\ storage_log[i].arg = entities[i]
            /\ storage_log[i].role = "READER"
            /\ i < Len(storage_log) => storage_log[i].out = "ok"
            /\ storage_log[i].out = "error"
               => /\ pc = "s_raised"
                  /\ raised = Err("ProviderError", "ex_set_permissions", i)
       /\ pc = "s_returned"
          => /\ Len(storage_log) = Len(entities)
             /\ \A i \in 1..Len(storage_log) : storage_log[i].out = "ok"
       /\ pc = "s_raised"
          => /\ Len(storage_log) > 0
             /\ storage_log[Len(storage_log)].out = "error"

C20_Witness ==
    /\ pc = "s_raised"
    /\ entities = <<"e2", "e1">>
    /\ Len(storage_log) = 1
    /\ storage_log[1].arg = "e2"
    /\ storage_log[1].out = "error"

\* ---- C21 -----------------------------------------------------------------
MaxOf(a, b) == IF a >= b THEN a ELSE b

\* C21: ssh_connection_works never makes more than max(1, attempts) connects
\* and a finished call has made at least one; called with attempts <= 0 it
\* makes exactly one connect and never sleeps, returns True if that connect
\* succeeded and False if it failed with a connection-level failure.
C21_AtLeastOneConnect ==
    ssh_caller # "none"
    => /\ Cardinality(ConnectIdx) <= MaxOf(1, ssh_attempts)
       /\ pc = "ssh_done" => Cardinality(ConnectIdx) >= 1
       /\ ssh_attempts <= 0
          => /\ EventCount("sleep") = 0
             /\ pc = "ssh_done"
                => /\ Cardinality(ConnectIdx) = 1
                   /\ ssh_log[1] = "connect_ok" => ssh_result = "True"
                   /\ ssh_log[1] = "connect_fail" => ssh_result = "False"

C21_Witness ==
    /\ pc = "ssh_done"
    /\ ssh_caller = "caller"
    /\ ssh_attempts = -1
    /\ ssh_result = "False"
    /\ ssh_log = <<"connect_fail", "close">>

====
